---- MODULE Spec2Model ----
(***************************************************************************)
(* Model of eduka-infra: the Parameter Store helpers of                    *)
(* lib/utils/parameter-store-helper.ts (createParameterStoreSecret,        *)
(* createSecretsMap, createParameterStorePolicy, createKmsDecryptPolicy)   *)
(* and the shell scripts build-and-push.sh, setup-parameter-store.sh and   *)
(* validate-parameter-store.sh, each under a specification of its own.     *)
(*                                                                         *)
(* Strings that the code inspects or concatenates (parameter paths,        *)
(* environment tags, regions, account ids, ARNs) are sequences of          *)
(* one-character strings, so that `includes("/")` and template literals    *)
(* are computed and not assumed.  Names that the code only compares or     *)
(* uses as keys (environment variable names, construct ids, IAM actions)   *)
(* are plain strings.                                                      *)
(***************************************************************************)
EXTENDS Integers, Sequences, FiniteSets

VARIABLES
    children,      \* ids of the child constructs of the construct passed in
    storage,       \* Parameter Store as seen by this invocation: path -> lookup outcome
    pc,            \* "idle" | "loop" | "done" | "aborted": position in createSecretsMap
    environment,   \* createSecretsMap argument
    parameters,    \* createSecretsMap argument
    idx,           \* position of the for-of loop, 1-based
    secretsMap,    \* the local secretsMap: environment variable -> ecs.Secret
    warnings,      \* console.warn output of the current invocation, in order
    calls,         \* history: the createParameterStoreSecret calls of the current invocation
    children0,     \* history: children when the current invocation started
    results,       \* history: what each completed invocation returned and logged
    policies,      \* history: the createParameterStorePolicy calls made so far
    kmsPolicies    \* history: the statements createKmsDecryptPolicy returned so far

\* build-and-push.sh
VARIABLES
    TAG,           \* TAG=${1:-"latest"}
    bpPc,          \* the step of build-and-push.sh that runs next, or "exited"
    bpRan,         \* history: the external commands run, in order, with their outcome
    bpOut,         \* the log_success / log_error / summary lines printed
    bpExit         \* exit status once bpPc = "exited"

\* setup-parameter-store.sh
VARIABLES
    ENVIRONMENT,   \* ENVIRONMENT="${1:?...}"
    envFile,       \* the env file: its lines and whether the last one ends with a newline
    spPc,          \* "loop" | "summary" | "done" (or "off")
    lineNo,        \* the line the next `read` returns
    CREATED,       \* counters of the script
    UPDATED,
    FAILED,
    puts,          \* history: the aws ssm put-parameter calls, in order, with their outcome
    paramStore     \* Parameter Store: name -> type of the parameter stored there

\* validate-parameter-store.sh
VARIABLES
    vPc,           \* "checks" | "roles" | "placeholders" | "kms" | "summary" | "exited" (or "off")
    CHECKS_PASSED, \* counters of the script
    CHECKS_FAILED,
    vChecks,       \* number of check_parameter / check_parameter_type calls made so far
    vExit          \* exit status once vPc = "exited"

\* setup-ecr.sh
VARIABLES
    REPO_NAME,     \* REPO_NAME=${1:-"eduka3d"}
    ecrPc,         \* the step of setup-ecr.sh that runs next, or "exited" (or "off")
    ecrRan,        \* history: the external commands run, in order, with their outcome
    ecrOut,        \* the log_success / log_warning / log_error / summary lines printed
    ecrExit,       \* exit status once ecrPc = "exited"
    tempFile,      \* $TEMP_FILE: "none" | "present" | "removed"
    outputFile     \* name of the configuration file written, "" while there is none

buildVars == <<TAG, bpPc, bpRan, bpOut, bpExit>>

ecrVars == <<REPO_NAME, ecrPc, ecrRan, ecrOut, ecrExit, tempFile, outputFile>>

setupVars == <<ENVIRONMENT, envFile, spPc, lineNo, CREATED, UPDATED, FAILED, puts,
               paramStore>>

validateVars == <<vPc, CHECKS_PASSED, CHECKS_FAILED, vChecks, vExit>>

scriptVars == <<buildVars, setupVars, validateVars, ecrVars>>

vars == <<children, storage, pc, environment, parameters, idx, secretsMap,
          warnings, calls, children0, results, policies, kmsPolicies, scriptVars>>

secretsVars == <<children, storage, pc, environment, parameters, idx, secretsMap,
                 warnings, calls, children0, results>>

----------------------------------------------------------------------------
(* Bounds *)

MaxParams == 2        \* longest parameters array passed to createSecretsMap
MaxInvocations == 2   \* createSecretsMap invocations on the one construct
MaxPolicies == 2      \* createParameterStorePolicy calls recorded

----------------------------------------------------------------------------
(* Strings *)

Includes(s, c) == \E i \in 1..Len(s) : s[i] = c

StartsWith(s, p) == Len(s) >= Len(p) /\ SubSeq(s, 1, Len(p)) = p

EndsWith(s, p) == Len(s) >= Len(p) /\ SubSeq(s, Len(s) - Len(p) + 1, Len(s)) = p

\* The literal "/eduka3d/" of the template strings at lines 65 and 104.
NAMESPACE == <<"/", "e", "d", "u", "k", "a", "3", "d", "/">>

\* The literal "arn:aws:ssm:" that opens the resource at line 104.
ARN_SSM == <<"a", "r", "n", ":", "a", "w", "s", ":", "s", "s", "m", ":">>

\* The literal ":parameter" of the resource at line 104.
ARN_PARAMETER == <<":", "p", "a", "r", "a", "m", "e", "t", "e", "r">>

----------------------------------------------------------------------------
(* Inputs *)

\* Environment tags: a usual one, the empty one and one with a separator
\* (the tag is not validated).
Environments ==
    { <<"d", "e", "v">>, <<>>, <<"a", "/", "b">> }

\* The construct handed to createSecretsMap may already have children (the
\* stack has some when it calls, lines 519-538); what matters here is
\* whether one of them bears the name of an environment variable.
InitialChildren == { {}, {"DB_PASS"} }

\* ParameterSecret values (interface ParameterSecret); required is "unset"
\* when the optional field is left out.
ParameterSecrets ==
    { [environmentVariable |-> "DB_PASS", parameterPath |-> <<"K">>,
       required |-> "unset"],
      [environmentVariable |-> "DB_PASS", parameterPath |-> <<"/", "x", "/", "K">>,
       required |-> "true"],
      [environmentVariable |-> "DB_PASS", parameterPath |-> <<"J">>,
       required |-> "false"],
      [environmentVariable |-> "API_KEY", parameterPath |-> <<"K">>,
       required |-> "false"],
      [environmentVariable |-> "API_KEY", parameterPath |-> <<"J">>,
       required |-> "true"],
      [environmentVariable |-> "API_KEY", parameterPath |-> <<"x", "/", "K">>,
       required |-> "unset"] }

ParameterLists ==
    UNION { [1..n -> ParameterSecrets] : n \in 0..MaxParams }

\* What a Parameter Store lookup can answer: found, parameter not found, or
\* another failure (authentication, throttling).
LookupOutcomes == {"ok", "notfound", "denied"}

Regions == { <<"e", "u">>, <<"u", "s">> }

AccountIds == { <<"1">>, <<"2">> }

----------------------------------------------------------------------------
(* createSecretsMap and createParameterStoreSecret *)

\* Variants of ResolvePath with a slip in the template or in the test.
ResolvePathNoEnvironment(param, env) ==
    IF Includes(param.parameterPath, "/")
    THEN param.parameterPath
    ELSE NAMESPACE \o param.parameterPath

ResolvePathNoSeparator(param, env) ==
    IF Includes(param.parameterPath, "/")
    THEN param.parameterPath
    ELSE NAMESPACE \o env \o param.parameterPath

ResolvePathLeadingSlashOnly(param, env) ==
    IF Len(param.parameterPath) > 0 /\ param.parameterPath[1] = "/"
    THEN param.parameterPath
    ELSE NAMESPACE \o env \o <<"/">> \o param.parameterPath

\* Lines 63-65: the path is taken as it is when it holds a "/", and is put
\* under /eduka3d/<environment>/ otherwise.
ResolvePath(param, env) ==
    IF Includes(param.parameterPath, "/")
    THEN param.parameterPath
    ELSE NAMESPACE \o env \o <<"/">> \o param.parameterPath

\* Variant of LogicalId: one fixed id for every imported parameter.
LogicalIdShared(param) == "Secret"

\* Line 70: the construct id given to the imported parameter.
LogicalId(param) == param.environmentVariable

\* A parameter name that holds a "/" must begin with one.
Malformed(parameterPath) ==
    Includes(parameterPath, "/") /\ parameterPath[1] # "/"

\* Variant of CreateParameterStoreSecret: the logical id is handed over as
\* the parameter name.
CreateParameterStoreSecretNamedById(constructChildren, logicalId, parameterPath, store) ==
    IF logicalId \in constructChildren
    THEN [error |-> "duplicate", children |-> constructChildren,
          secret |-> [logicalId |-> logicalId, parameterName |-> <<logicalId>>]]
    ELSE [error |-> IF Malformed(parameterPath) THEN "malformed"
                    ELSE IF store[parameterPath] # "ok" THEN store[parameterPath]
                    ELSE "none",
          children |-> constructChildren \cup {logicalId},
          secret |-> [logicalId |-> logicalId, parameterName |-> <<logicalId>>]]

\* Lines 32-46.  The imported parameter is a child construct of `construct`
\* with id logicalId: a second child with the same id is refused, and the
\* child is in the tree before the name is validated and looked up.
\* error is "none" when an ecs.Secret is returned.
CreateParameterStoreSecret(constructChildren, logicalId, parameterPath, store) ==
    IF logicalId \in constructChildren
    THEN [error |-> "duplicate", children |-> constructChildren,
          secret |-> [logicalId |-> logicalId, parameterName |-> parameterPath]]
    ELSE [error |-> IF Malformed(parameterPath) THEN "malformed"
                    ELSE IF store[parameterPath] # "ok" THEN store[parameterPath]
                    ELSE "none",
          children |-> constructChildren \cup {logicalId},
          secret |-> [logicalId |-> logicalId, parameterName |-> parameterPath]]

\* Variant of Catches: only parameter-not-found is caught.
CatchesNotFoundOnly(error) == error = "notfound"

\* Line 73: `catch (error)` takes every error thrown in the try block.
Catches(error) == TRUE

\* Variant of WarnsFor: param.required === true.
WarnsForRequiredOnly(param) == param.required = "true"

\* Line 74: param.required !== false.
WarnsFor(param) == param.required # "false"

\* Variant of Put: the map is replaced by one that holds the new entry alone.
PutAlone(map, key, secret) == [k \in {key} |-> secret]

\* secretsMap[key] = secret (line 68).
Put(map, key, secret) ==
    [k \in DOMAIN map \cup {key} |-> IF k = key THEN secret ELSE map[k]]

\* Variant of LoopBody: a failed secret creation is tried a second time.
LoopBodyRetry(st, env, param, store) ==
    LET parameterPath == ResolvePath(param, env)
        r == CreateParameterStoreSecret(st.children, LogicalId(param),
                                        parameterPath, store)
        call == [param |-> param, parameterPath |-> parameterPath,
                 error |-> r.error]
    IN  IF r.error = "none"
        THEN [st EXCEPT !.children = r.children,
                        !.secretsMap = Put(st.secretsMap, param.environmentVariable,
                                           r.secret),
                        !.calls = Append(st.calls, call)]
        ELSE [st EXCEPT !.children = r.children,
                        !.warnings =
                            IF WarnsFor(param)
                            THEN Append(st.warnings,
                                        [environmentVariable |-> param.environmentVariable,
                                         parameterPath |-> parameterPath])
                            ELSE st.warnings,
                        !.calls = st.calls \o <<call, [call EXCEPT !.error = "duplicate"]>>]

\* Lines 62-80: one iteration of the loop on the state
\* st = [children, secretsMap, warnings, calls, aborted].
LoopBody(st, env, param, store) ==
    LET parameterPath == ResolvePath(param, env)
        r == CreateParameterStoreSecret(st.children, LogicalId(param),
                                        parameterPath, store)
        call == [param |-> param, parameterPath |-> parameterPath,
                 error |-> r.error]
    IN  IF r.error = "none"
        THEN [st EXCEPT !.children = r.children,
                        !.secretsMap = Put(st.secretsMap, param.environmentVariable,
                                           r.secret),
                        !.calls = Append(st.calls, call)]
        ELSE IF Catches(r.error)
        THEN [st EXCEPT !.children = r.children,
                        !.warnings =
                            IF WarnsFor(param)
                            THEN Append(st.warnings,
                                        [environmentVariable |-> param.environmentVariable,
                                         parameterPath |-> parameterPath])
                            ELSE st.warnings,
                        !.calls = Append(st.calls, call)]
        ELSE [st EXCEPT !.children = r.children,
                        !.calls = Append(st.calls, call),
                        !.aborted = TRUE]

EmptyMap == [k \in {} |-> 0]

\* Lines 55-83 as a function of the construct's children, the arguments and
\* the store: the loop state after the whole array.
RECURSIVE RunLoop(_, _, _, _, _)
RunLoop(st, env, params, store, i) ==
    IF i > Len(params) \/ st.aborted
    THEN st
    ELSE RunLoop(LoopBody(st, env, params[i], store), env, params, store, i + 1)

CreateSecretsMap(constructChildren, env, params, store) ==
    RunLoop([children |-> constructChildren, secretsMap |-> EmptyMap,
             warnings |-> <<>>, calls |-> <<>>, aborted |-> FALSE],
            env, params, store, 1)

\* The paths an invocation hands to Parameter Store.
LookupPaths(env, params) ==
    { ResolvePath(params[i], env) : i \in 1..Len(params) }

----------------------------------------------------------------------------
(* createParameterStorePolicy *)

\* Variant of CreateParameterStorePolicy: the resource covers every environment.
CreateParameterStorePolicyAnyEnvironment(env, region, accountId) ==
    [actions |-> <<"ssm:GetParameter", "ssm:GetParameters",
                   "ssm:GetParametersByPath">>,
     resources |-> << ARN_SSM \o region \o <<":">> \o accountId \o ARN_PARAMETER
                      \o NAMESPACE \o <<"*">> >>,
     effect |-> "Allow"]

\* Lines 92-108.
CreateParameterStorePolicy(env, region, accountId) ==
    [actions |-> <<"ssm:GetParameter", "ssm:GetParameters",
                   "ssm:GetParametersByPath">>,
     resources |-> << ARN_SSM \o region \o <<":">> \o accountId \o ARN_PARAMETER
                      \o NAMESPACE \o env \o <<"/", "*">> >>,
     effect |-> "Allow"]

\* Variant of CreateKmsDecryptPolicy: kms:DescribeKey is left out.
CreateKmsDecryptPolicyDecryptOnly ==
    [actions |-> <<"kms:Decrypt">>,
     resources |-> << <<"*">> >>,
     effect |-> "Allow"]

\* Lines 114-120.
CreateKmsDecryptPolicy ==
    [actions |-> <<"kms:Decrypt", "kms:DescribeKey">>,
     resources |-> << <<"*">> >>,
     effect |-> "Allow"]

\* The ARN of the parameter named `parameterName` in a region and account:
\* what ecs.Secret.fromSsmParameter (line 45) asks the execution role to read.
ParameterArn(region, accountId, parameterName) ==
    ARN_SSM \o region \o <<":">> \o accountId \o ARN_PARAMETER \o parameterName

\* An IAM resource that ends with "*" covers the ARNs that begin with what
\* precedes the "*"; one without "*" covers itself alone.
Covers(resource, arn) ==
    IF Len(resource) > 0 /\ resource[Len(resource)] = "*"
    THEN StartsWith(arn, SubSeq(resource, 1, Len(resource) - 1))
    ELSE resource = arn

----------------------------------------------------------------------------
(* The state machine of createSecretsMap *)

InitSecrets ==
    /\ children \in InitialChildren
    /\ storage = EmptyMap
    /\ pc = "idle"
    /\ environment = <<>>
    /\ parameters = <<>>
    /\ idx = 1
    /\ secretsMap = EmptyMap
    /\ warnings = <<>>
    /\ calls = <<>>
    /\ children0 = children
    /\ results = <<>>

\* No script is running.
BuildOff ==
    /\ TAG = "latest"
    /\ bpPc = "off"
    /\ bpRan = <<>>
    /\ bpOut = <<>>
    /\ bpExit = 0

SetupOff ==
    /\ ENVIRONMENT = <<>>
    /\ envFile = [lines |-> <<>>, terminated |-> TRUE]
    /\ spPc = "off"
    /\ lineNo = 1
    /\ CREATED = 0
    /\ UPDATED = 0
    /\ FAILED = 0
    /\ puts = <<>>
    /\ paramStore = EmptyMap

EcrOff ==
    /\ REPO_NAME = "eduka3d"
    /\ ecrPc = "off"
    /\ ecrRan = <<>>
    /\ ecrOut = <<>>
    /\ ecrExit = 0
    /\ tempFile = "none"
    /\ outputFile = ""

ValidateOff ==
    /\ vPc = "off"
    /\ CHECKS_PASSED = 0
    /\ CHECKS_FAILED = 0
    /\ vChecks = 0
    /\ vExit = 0

\* The construct is alone: no createSecretsMap invocation is under way.
SecretsOff ==
    /\ children = {}
    /\ storage = EmptyMap
    /\ pc = "idle"
    /\ environment = <<>>
    /\ parameters = <<>>
    /\ idx = 1
    /\ secretsMap = EmptyMap
    /\ warnings = <<>>
    /\ calls = <<>>
    /\ children0 = {}
    /\ results = <<>>

PoliciesOff ==
    /\ policies = <<>>
    /\ kmsPolicies = <<>>

Init ==
    /\ InitSecrets
    /\ PoliciesOff
    /\ BuildOff /\ SetupOff /\ ValidateOff /\ EcrOff

\* The caller enters createSecretsMap(construct, env, params); line 60.
Invoke ==
    /\ pc = "idle"
    /\ \E env \in Environments, params \in ParameterLists :
        /\ environment' = env
        /\ parameters' = params
        /\ storage' \in [LookupPaths(env, params) -> LookupOutcomes]
    /\ pc' = "loop"
    /\ idx' = 1
    /\ secretsMap' = EmptyMap
    /\ warnings' = <<>>
    /\ calls' = <<>>
    /\ children0' = children
    /\ UNCHANGED <<children, results, policies,
                   kmsPolicies, scriptVars>>

\* One pass through the loop body, lines 62-80.
Iterate ==
    /\ pc = "loop"
    /\ idx <= Len(parameters)
    /\ LET st == LoopBody([children |-> children, secretsMap |-> secretsMap,
                           warnings |-> warnings, calls |-> calls,
                           aborted |-> FALSE],
                          environment, parameters[idx], storage)
       IN  /\ children' = st.children
           /\ secretsMap' = st.secretsMap
           /\ warnings' = st.warnings
           /\ calls' = st.calls
           /\ pc' = IF st.aborted THEN "aborted" ELSE "loop"
    /\ idx' = idx + 1
    /\ UNCHANGED <<storage, environment, parameters, children0, results, policies,
                   kmsPolicies, scriptVars>>

\* return secretsMap; line 82.
Return ==
    /\ pc = "loop"
    /\ idx > Len(parameters)
    /\ pc' = "done"
    /\ results' = Append(results, [secretsMap |-> secretsMap, warnings |-> warnings])
    /\ UNCHANGED <<children, storage, environment, parameters, idx, secretsMap,
                   warnings, calls, children0, policies,
                   kmsPolicies, scriptVars>>

\* The caller invokes createSecretsMap again with the same construct,
\* environment and parameters, Parameter Store unchanged.
InvokeAgain ==
    /\ pc = "done"
    /\ Len(results) < MaxInvocations
    /\ pc' = "loop"
    /\ idx' = 1
    /\ secretsMap' = EmptyMap
    /\ warnings' = <<>>
    /\ calls' = <<>>
    /\ children0' = children
    /\ UNCHANGED <<children, storage, environment, parameters, results, policies,
                   kmsPolicies, scriptVars>>

Next == Invoke \/ Iterate \/ Return \/ InvokeAgain

Spec == Init /\ [][Next]_vars

\* The loop is synchronous code: once entered it runs to its return.
LiveSpec == Spec /\ WF_vars(Iterate) /\ WF_vars(Return)

----------------------------------------------------------------------------
(* The calls of createParameterStorePolicy *)

BuildPolicy ==
    /\ Len(policies) < MaxPolicies
    /\ \E env \in Environments, region \in Regions, accountId \in AccountIds :
        policies' = Append(policies,
                           [environment |-> env, region |-> region,
                            accountId |-> accountId,
                            statement |-> CreateParameterStorePolicy(env, region,
                                                                     accountId)])
    /\ UNCHANGED <<secretsVars, kmsPolicies, scriptVars>>

\* A call of createKmsDecryptPolicy(), lines 114-120.
BuildKmsPolicy ==
    /\ Len(kmsPolicies) < MaxPolicies
    /\ kmsPolicies' = Append(kmsPolicies, CreateKmsDecryptPolicy)
    /\ UNCHANGED <<secretsVars, policies, scriptVars>>

NextPolicy == BuildPolicy \/ BuildKmsPolicy

PolicySpec == Init /\ [][NextPolicy]_vars

----------------------------------------------------------------------------
(* build-and-push.sh *)

\* The first argument as given: left out, empty, or a tag.
NoArgument == "<unset>"

TagArguments == {NoArgument, "", "latest", "v1.0.0", "v2"}

\* Line 13: TAG=${1:-"latest"}.
TagOf(argument) == IF argument \in {NoArgument, ""} THEN "latest" ELSE argument

\* Exit status of an external command that failed.
FailureStatuses == {1, 125, 255}

Ran(cmd, ref, ok) == [cmd |-> cmd, ref |-> ref, ok |-> ok]

\* The steps in script order.
BpSuccessor(step) ==
    CASE step = "prerequisites" -> "step1"
      [] step = "step1" -> "step3"
      [] step = "step3" -> "step4"
      [] step = "step4" -> "step5"
      [] step = "step5" -> "step6"
      [] step = "step6" -> "step7"
      [] step = "step7" -> "step8"
      [] step = "step8" -> "cleanup"
      [] step = "cleanup" -> "summary"
      [] OTHER -> "exited"

\* Variant of BpAfter: a failed docker build does not stop the script.
BpAfterBuildIgnored(step, ok) ==
    IF ok \/ step = "step5" THEN BpSuccessor(step) ELSE "exited"

\* Every step is an `if` with `exit 1` in its failure branch (lines 53-56,
\* 60-63, 67-70, 91-95, 122-125, 136-139, 149-153, 177-181), or a plain
\* command under `set -e` (line 10).
BpAfter(step, ok) == IF ok THEN BpSuccessor(step) ELSE "exited"

\* Variant of BpPush: the status of the second push is dropped.
BpPushSecondUnchecked(tag, first, second) ==
    [ran |-> <<Ran("docker push", tag, first)>>
               \o (IF first /\ tag # "latest"
                   THEN <<Ran("docker push", "latest", second)>> ELSE <<>>),
     ok |-> first]

\* Lines 174-175: docker push $IMAGE_URI && [ "$TAG" != "latest" ] &&
\* docker push ${REPO_URI}:latest, as the condition of the `if`.
BpPush(tag, first, second) ==
    [ran |-> <<Ran("docker push", tag, first)>>
               \o (IF first /\ tag # "latest"
                   THEN <<Ran("docker push", "latest", second)>> ELSE <<>>),
     ok |-> first /\ tag # "latest" /\ second]

InitBuild ==
    /\ \E argument \in TagArguments : TAG = TagOf(argument)
    /\ bpPc = "prerequisites"
    /\ bpRan = <<>>
    /\ bpOut = <<>>
    /\ bpExit = 0
    /\ SecretsOff /\ PoliciesOff /\ SetupOff /\ ValidateOff /\ EcrOff

\* The script moves to `next` (exits with `status` when that is "exited")
\* after running `ran` and printing `out`.
BpGo(next, status, ran, out) ==
    /\ bpPc' = next
    /\ bpExit' = IF next = "exited" THEN status ELSE bpExit
    /\ bpRan' = bpRan \o ran
    /\ bpOut' = bpOut \o out
    /\ UNCHANGED <<TAG, secretsVars, policies, kmsPolicies, setupVars, validateVars,
                   ecrVars>>

\* check_prerequisites, lines 49-72 and 87.
BpPrerequisites ==
    /\ bpPc = "prerequisites"
    /\ \E docker \in BOOLEAN, aws \in BOOLEAN, dockerfile \in BOOLEAN :
        IF ~docker
        THEN BpGo(BpAfter("prerequisites", FALSE), 1,
                  <<Ran("command -v docker", "", FALSE)>>,
                  <<"Docker is not installed">>)
        ELSE IF ~aws
        THEN BpGo(BpAfter("prerequisites", FALSE), 1,
                  <<Ran("command -v docker", "", TRUE),
                    Ran("command -v aws", "", FALSE)>>,
                  <<"Docker is installed", "AWS CLI is not installed">>)
        ELSE BpGo(BpAfter("prerequisites", dockerfile), 1,
                  <<Ran("command -v docker", "", TRUE),
                    Ran("command -v aws", "", TRUE),
                    Ran("test -f Dockerfile", "", dockerfile)>>,
                  <<"Docker is installed", "AWS CLI is installed",
                    IF dockerfile THEN "Dockerfile found" ELSE "Dockerfile not found">>)

\* Steps 1 and 2, lines 89-106.
BpAccountId ==
    /\ bpPc = "step1"
    /\ \E ok \in BOOLEAN :
        BpGo(BpAfter("step1", ok), 1,
             <<Ran("aws sts get-caller-identity", "", ok)>>,
             IF ok THEN <<"Account ID", "Registry", "Repository", "Image URI">>
             ELSE <<"Failed to get AWS Account ID. Check your AWS credentials.">>)

\* Step 3, lines 108-126.
BpRepository ==
    /\ bpPc = "step3"
    /\ \E exists \in BOOLEAN, created \in BOOLEAN :
        IF exists
        THEN BpGo(BpAfter("step3", TRUE), 1,
                  <<Ran("aws ecr describe-repositories", "", TRUE)>>,
                  <<"Repository exists">>)
        ELSE BpGo(BpAfter("step3", created), 1,
                  <<Ran("aws ecr describe-repositories", "", FALSE),
                    Ran("aws ecr create-repository", "", created)>>,
                  <<"Repository doesn't exist. Creating...",
                    IF created THEN "Repository created"
                    ELSE "Failed to create repository">>)

\* Step 4, lines 128-139: the status of the pipeline is that of docker login.
BpLogin ==
    /\ bpPc = "step4"
    /\ \E password \in BOOLEAN, login \in BOOLEAN :
        BpGo(BpAfter("step4", login), 1,
             <<Ran("aws ecr get-login-password", "", password),
               Ran("docker login", "", login)>>,
             IF login THEN <<"Docker authenticated successfully">>
             ELSE <<"Docker authentication failed. Check your credentials.">>)

\* Step 5 and the image size, lines 141-159; the size is informational
\* (`|| echo ""`).
BpBuild ==
    /\ bpPc = "step5"
    /\ \E ok \in BOOLEAN, size \in BOOLEAN :
        IF ok
        THEN BpGo(BpAfter("step5", TRUE), 1,
                  <<Ran("docker build", "local", TRUE),
                    Ran("docker inspect", "local", size)>>,
                  <<"Image built successfully">>)
        ELSE BpGo(BpAfter("step5", FALSE), 1,
                  <<Ran("docker build", "local", FALSE)>>,
                  <<"Docker build failed. See details below:">>)

\* Step 6, lines 161-170: plain commands, so `set -e` ends the script with
\* the status of a docker tag that fails.
BpTag ==
    /\ bpPc = "step6"
    /\ \E first \in BOOLEAN, second \in BOOLEAN, status \in FailureStatuses :
        IF ~first
        THEN BpGo(BpAfter("step6", FALSE), status,
                  <<Ran("docker tag", TAG, FALSE)>>, <<>>)
        ELSE IF TAG # "latest"
        THEN BpGo(BpAfter("step6", second), status,
                  <<Ran("docker tag", TAG, TRUE), Ran("docker tag", "latest", second)>>,
                  <<"Tagged as">> \o (IF second THEN <<"Also tagged as">> ELSE <<>>))
        ELSE BpGo(BpAfter("step6", TRUE), status,
                  <<Ran("docker tag", TAG, TRUE)>>, <<"Tagged as">>)

\* Step 7, lines 172-181.
BpPushStep ==
    /\ bpPc = "step7"
    /\ \E first \in BOOLEAN, second \in BOOLEAN :
        LET push == BpPush(TAG, first, second)
        IN  BpGo(BpAfter("step7", push.ok), 1, push.ran,
                 IF push.ok THEN <<"Image pushed successfully">>
                 ELSE <<"Push failed. See details below:">>)

\* Step 8, lines 183-197: the assignment IMAGES=$(...) is a plain command
\* under `set -e`.
BpVerify ==
    /\ bpPc = "step8"
    /\ \E ok \in BOOLEAN, images \in BOOLEAN, status \in FailureStatuses :
        BpGo(BpAfter("step8", ok), status,
             <<Ran("aws ecr describe-images", "", ok)>>,
             IF ~ok THEN <<>>
             ELSE IF images THEN <<"Images in repository:">>
             ELSE <<"No images found in repository">>)

\* Lines 199-202.
BpCleanup ==
    /\ bpPc = "cleanup"
    /\ \E ok \in BOOLEAN, status \in FailureStatuses :
        BpGo(BpAfter("cleanup", ok), status,
             <<Ran("docker rmi", "local", ok)>>,
             IF ok THEN <<"Cleanup complete">> ELSE <<>>)

\* Lines 204-220: the script ends after its last echo.
BpSummary ==
    /\ bpPc = "summary"
    /\ BpGo("exited", 0, <<>>, <<"Workflow Complete!">>)

NextBuild ==
    \/ BpPrerequisites \/ BpAccountId \/ BpRepository \/ BpLogin \/ BpBuild
    \/ BpTag \/ BpPushStep \/ BpVerify \/ BpCleanup \/ BpSummary

BuildSpec == InitBuild /\ [][NextBuild]_vars

----------------------------------------------------------------------------
(* setup-parameter-store.sh *)

MaxLines == 2

\* [[ "$value" =~ "your-" ]]: a quoted pattern matches as a literal, anywhere
\* in the value.
ContainsText(s, text) ==
    \E i \in 1..(Len(s) - Len(text) + 1) : SubSeq(s, i, i + Len(text) - 1) = text

\* Position of the first "=" of the line, 0 when it has none.
FirstEquals(line) ==
    LET at == {i \in DOMAIN line : line[i] = "="}
    IN  IF at = {} THEN 0 ELSE CHOOSE i \in at : \A j \in at : i <= j

\* Line 55: key="${line%%=*}", the longest suffix that starts with "=" removed.
KeyOf(line) ==
    IF FirstEquals(line) = 0 THEN line ELSE SubSeq(line, 1, FirstEquals(line) - 1)

\* Line 56: value="${line#*=}", the shortest prefix that ends with "=" removed.
ValueOf(line) ==
    IF FirstEquals(line) = 0 THEN line
    ELSE SubSeq(line, FirstEquals(line) + 1, Len(line))

RECURSIVE DropSpaces(_)
DropSpaces(s) ==
    IF Len(s) > 0 /\ Head(s) = " " THEN DropSpaces(Tail(s)) ELSE s

\* Line 59: key=$(echo "$key" | xargs); xargs splits its input into words
\* and echoes them separated by single spaces.
RECURSIVE Xargs(_)
Xargs(s) ==
    LET word == DropSpaces(s)
    IN  IF Len(word) = 0 THEN <<>>
        ELSE IF Len(DropSpaces(Tail(word))) = 0 THEN <<Head(word)>>
        ELSE IF Head(Tail(word)) = " "
        THEN <<Head(word), " ">> \o Xargs(Tail(word))
        ELSE <<Head(word)>> \o Xargs(Tail(word))

\* The literals of line 62.
YOUR_DASH == <<"y", "o", "u", "r", "-">>

YOUR_UNDERSCORE == <<"Y", "O", "U", "R", "_">>

EXAMPLE == <<"e", "x", "a", "m", "p", "l", "e">>

\* Line 52: [[ -z "$line" || "$line" =~ ^#.*$ ]] && continue.
IsBlankOrComment(line) == IF Len(line) = 0 THEN TRUE ELSE Head(line) = "#"

\* Line 62.
IsPlaceholder(value) ==
    \/ Len(value) = 0
    \/ ContainsText(value, YOUR_DASH)
    \/ ContainsText(value, YOUR_UNDERSCORE)
    \/ ContainsText(value, EXAMPLE)

\* Lines 29-31: the array holds one element, the empty string.
SECURE_PARAMS == << <<>> >>

\* Lines 34-42.
is_secure_param(param) == \E i \in DOMAIN SECURE_PARAMS : param = SECURE_PARAMS[i]

\* Lines 68-73.
ParamType(key) == IF is_secure_param(key) THEN "SecureString" ELSE "String"

\* Line 67 of this script and lines 32 and 54 of the validation script.
ParamName(env, key) == NAMESPACE \o env \o <<"/">> \o key

\* The environments of the usage line.
SetupEnvironments == { <<"d", "e", "v">>, <<"p", "r", "o", "d">> }

DJANGO_SECRET_KEY == <<"D", "J", "A", "N", "G", "O", "_", "S", "E", "C", "R", "E", "T", "_", "K", "E", "Y">>

\* Lines an env file is made of: empty, comment, plain pair, a pair whose
\* key the stack declares SecureString, placeholder value, empty value, no
\* "=", and blanks around the key with "=" in the value.
EnvLines ==
    { <<>>,
      <<"#", "c">>,
      <<"A", "=", "1">>,
      DJANGO_SECRET_KEY \o <<"=", "s">>,
      <<"B", "=">> \o YOUR_DASH \o <<"x">>,
      <<"C", "=">>,
      <<"K">>,
      <<" ", "A", " ", "=", "a", "=", "b">> }

LinesUpTo(n) == UNION { [1..k -> EnvLines] : k \in 0..n }

\* A file is its lines and whether the last of them ends with a newline; a
\* last line without one has at least a character.
EnvFiles ==
    { [lines |-> ls, terminated |-> tm] :
        ls \in LinesUpTo(MaxLines), tm \in BOOLEAN } \
    { f \in [lines : LinesUpTo(MaxLines), terminated : {FALSE}] :
        Len(f.lines) = 0 \/ Len(f.lines[Len(f.lines)]) = 0 }

\* Line 50: `while IFS= read -r line` runs its body for the lines `read`
\* returns with status 0, those that end with a newline.
LinesRead(file) ==
    IF file.terminated THEN file.lines
    ELSE SubSeq(file.lines, 1, Len(file.lines) - 1)

InitSetup ==
    /\ ENVIRONMENT \in SetupEnvironments
    /\ envFile \in EnvFiles
    /\ spPc = "loop"
    /\ lineNo = 1
    /\ CREATED = 0
    /\ UPDATED = 0
    /\ FAILED = 0
    /\ puts = <<>>
    /\ paramStore = EmptyMap
    /\ SecretsOff /\ PoliciesOff /\ BuildOff /\ ValidateOff /\ EcrOff

\* Lines 52 and 62-65: the line is skipped.
SpSkipLine ==
    /\ spPc = "loop"
    /\ lineNo <= Len(LinesRead(envFile))
    /\ LET line == LinesRead(envFile)[lineNo]
       IN  IF IsBlankOrComment(line) THEN TRUE ELSE IsPlaceholder(ValueOf(line))
    /\ lineNo' = lineNo + 1
    /\ UNCHANGED <<ENVIRONMENT, envFile, spPc, CREATED, UPDATED, FAILED, puts,
                   paramStore>>
    /\ UNCHANGED <<secretsVars, policies, kmsPolicies, buildVars, validateVars,
                   ecrVars>>

\* Lines 67-91: one aws ssm put-parameter --overwrite, which succeeds or not.
SpPutParameter ==
    /\ spPc = "loop"
    /\ lineNo <= Len(LinesRead(envFile))
    /\ LET line == LinesRead(envFile)[lineNo]
           key == Xargs(KeyOf(line))
           value == ValueOf(line)
           PARAM_NAME == ParamName(ENVIRONMENT, key)
           PARAM_TYPE == ParamType(key)
       IN  /\ ~IsBlankOrComment(line)
           /\ ~IsPlaceholder(value)
           /\ \E ok \in BOOLEAN :
                /\ puts' = Append(puts, [line |-> lineNo, key |-> key,
                                         name |-> PARAM_NAME, value |-> value,
                                         type |-> PARAM_TYPE, ok |-> ok])
                /\ CREATED' = IF ok THEN CREATED + 1 ELSE CREATED
                /\ FAILED' = IF ok THEN FAILED ELSE FAILED + 1
                /\ paramStore' =
                     IF ok THEN Put(paramStore, PARAM_NAME,
                                    [type |-> PARAM_TYPE, value |-> value])
                     ELSE paramStore
    /\ lineNo' = lineNo + 1
    /\ UNCHANGED <<ENVIRONMENT, envFile, spPc, UPDATED>>
    /\ UNCHANGED <<secretsVars, policies, kmsPolicies, buildVars, validateVars,
                   ecrVars>>

\* Line 92: `read` fails at the end of the file and the loop ends.
SpEndOfFile ==
    /\ spPc = "loop"
    /\ lineNo > Len(LinesRead(envFile))
    /\ spPc' = "summary"
    /\ UNCHANGED <<ENVIRONMENT, envFile, lineNo, CREATED, UPDATED, FAILED, puts,
                   paramStore>>
    /\ UNCHANGED <<secretsVars, policies, kmsPolicies, buildVars, validateVars,
                   ecrVars>>

\* Lines 94-114: the counters are printed and the parameters listed.
SpSummary ==
    /\ spPc = "summary"
    /\ spPc' = "done"
    /\ UNCHANGED <<ENVIRONMENT, envFile, lineNo, CREATED, UPDATED, FAILED, puts,
                   paramStore>>
    /\ UNCHANGED <<secretsVars, policies, kmsPolicies, buildVars, validateVars,
                   ecrVars>>

NextSetup == SpSkipLine \/ SpPutParameter \/ SpEndOfFile \/ SpSummary

SetupSpec == InitSetup /\ [][NextSetup]_vars

----------------------------------------------------------------------------
(* validate-parameter-store.sh *)

MaxRoles == 2

\* Variant of check_parameter_type: a parameter that is not there counts as
\* neither passed nor failed.
check_parameter_typeNotFoundUncounted(passed, failed, param_type, expected_type) ==
    IF param_type = expected_type
    THEN [passed |-> passed + 1, failed |-> failed, status |-> 0]
    ELSE IF param_type = "NOT_FOUND"
    THEN [passed |-> passed, failed |-> failed, status |-> 1]
    ELSE [passed |-> passed, failed |-> failed + 1, status |-> 1]

\* Lines 30-48, given whether aws ssm get-parameter succeeded.
check_parameter(passed, failed, found) ==
    IF found
    THEN [passed |-> passed + 1, failed |-> failed, status |-> 0]
    ELSE [passed |-> passed, failed |-> failed + 1, status |-> 1]

\* Lines 51-72, given the text param_type holds (line 56-61).
check_parameter_type(passed, failed, param_type, expected_type) ==
    IF param_type = expected_type
    THEN [passed |-> passed + 1, failed |-> failed, status |-> 0]
    ELSE [passed |-> passed, failed |-> failed + 1, status |-> 1]

\* Lines 56-61: the Parameter.Type of the parameter, or NOT_FOUND when
\* aws ssm get-parameter fails.
GetParameterType(store, name) ==
    IF name \in DOMAIN store THEN store[name].type ELSE "NOT_FOUND"

ParameterTypes == {"String", "SecureString", "StringList", "NOT_FOUND"}

\* The calls of lines 76-104, in order.
CHECKS ==
    << [fn |-> "check_parameter", name |-> "DJANGO_SECRET_KEY"],
       [fn |-> "check_parameter", name |-> "DATABASE_ENGINE"],
       [fn |-> "check_parameter", name |-> "DATABASE_NAME"],
       [fn |-> "check_parameter", name |-> "DATABASE_USER"],
       [fn |-> "check_parameter", name |-> "DATABASE_PASSWORD"],
       [fn |-> "check_parameter", name |-> "DATABASE_HOST"],
       [fn |-> "check_parameter", name |-> "DATABASE_PORT"],
       [fn |-> "check_parameter", name |-> "AWS_STORAGE_BUCKET_NAME"],
       [fn |-> "check_parameter", name |-> "AWS_S3_REGION_NAME"],
       [fn |-> "check_parameter", name |-> "EMAIL_HOST"],
       [fn |-> "check_parameter", name |-> "EMAIL_PORT"],
       [fn |-> "check_parameter", name |-> "EMAIL_HOST_USER"],
       [fn |-> "check_parameter", name |-> "STRIPE_PUBLISHABLE_KEY"],
       [fn |-> "check_parameter_type", name |-> "DJANGO_SECRET_KEY",
        expected |-> "SecureString"],
       [fn |-> "check_parameter_type", name |-> "DATABASE_PASSWORD",
        expected |-> "SecureString"],
       [fn |-> "check_parameter_type", name |-> "DJANGO_ALLOWED_HOSTS",
        expected |-> "String"] >>

\* The script is run with its environment argument; the paths it hands to
\* aws are formed from it, and the answers of aws are drawn here.
InitValidate ==
    /\ vPc = "checks"
    /\ CHECKS_PASSED = 0
    /\ CHECKS_FAILED = 0
    /\ vChecks = 0
    /\ vExit = 0
    /\ SecretsOff /\ PoliciesOff /\ BuildOff /\ SetupOff /\ EcrOff

VGo(next, passed, failed, made, status) ==
    /\ vPc' = next
    /\ CHECKS_PASSED' = passed
    /\ CHECKS_FAILED' = failed
    /\ vChecks' = made
    /\ vExit' = status
    /\ UNCHANGED <<secretsVars, policies, kmsPolicies, buildVars, setupVars,
                   ecrVars>>

\* Lines 76-98: the next check_parameter call.
VCheckParameter ==
    /\ vPc = "checks"
    /\ vChecks < Len(CHECKS)
    /\ CHECKS[vChecks + 1].fn = "check_parameter"
    /\ \E found \in BOOLEAN :
        LET r == check_parameter(CHECKS_PASSED, CHECKS_FAILED, found)
        IN  VGo("checks", r.passed, r.failed, vChecks + 1, vExit)

\* Lines 102-104: the next check_parameter_type call.
VCheckParameterType ==
    /\ vPc = "checks"
    /\ vChecks < Len(CHECKS)
    /\ CHECKS[vChecks + 1].fn = "check_parameter_type"
    /\ \E param_type \in ParameterTypes :
        LET r == check_parameter_type(CHECKS_PASSED, CHECKS_FAILED, param_type,
                                      CHECKS[vChecks + 1].expected)
        IN  VGo("checks", r.passed, r.failed, vChecks + 1, vExit)

VChecksDone ==
    /\ vPc = "checks"
    /\ vChecks = Len(CHECKS)
    /\ VGo("roles", CHECKS_PASSED, CHECKS_FAILED, vChecks, vExit)

\* Lines 111-129: each role that has the policy counts as a passed check.
VRoles ==
    /\ vPc = "roles"
    /\ \E roles \in 0..MaxRoles : \E withPolicy \in 0..roles :
        VGo("placeholders", CHECKS_PASSED + withPolicy, CHECKS_FAILED, vChecks, vExit)

\* Lines 131-172: the listing, then the placeholder count.
VPlaceholders ==
    /\ vPc = "placeholders"
    /\ \E PLACEHOLDER_COUNT \in 0..1 :
        IF PLACEHOLDER_COUNT > 0
        THEN VGo("kms", CHECKS_PASSED, CHECKS_FAILED + 1, vChecks, vExit)
        ELSE VGo("kms", CHECKS_PASSED + 1, CHECKS_FAILED, vChecks, vExit)

\* Lines 174-186.
VKms ==
    /\ vPc = "kms"
    /\ VGo("summary", CHECKS_PASSED + 1, CHECKS_FAILED, vChecks, vExit)

\* Lines 188-206: exit 1 when a check failed, else the script runs to its
\* last echo.
VSummary ==
    /\ vPc = "summary"
    /\ VGo("exited", CHECKS_PASSED, CHECKS_FAILED, vChecks,
           IF CHECKS_FAILED > 0 THEN 1 ELSE 0)

NextValidate ==
    \/ VCheckParameter \/ VCheckParameterType \/ VChecksDone \/ VRoles
    \/ VPlaceholders \/ VKms \/ VSummary

ValidateSpec == InitValidate /\ [][NextValidate]_vars

----------------------------------------------------------------------------
(* setup-ecr.sh *)

RepoArguments == {NoArgument, "", "eduka3d", "myapp"}

\* Line 13: REPO_NAME=${1:-"eduka3d"}.
RepoNameOf(argument) ==
    IF argument \in {NoArgument, ""} THEN "eduka3d" ELSE argument

\* Line 206: OUTPUT_FILE="ecr-${REPO_NAME}-config.txt".
OutputFileOf(repoName) == "ecr-" \o repoName \o "-config.txt"

\* The steps in script order.
EcrSuccessor(step) ==
    CASE step = "step1" -> "step2"
      [] step = "step2" -> "step3"
      [] step = "step3" -> "step4"
      [] step = "step4" -> "step5"
      [] step = "step5" -> "remove"
      [] step = "remove" -> "step7"
      [] step = "step7" -> "step8"
      [] step = "step8" -> "summary"
      [] OTHER -> "exited"

\* Variant of EcrAfter: a failure to enable image scanning ends the script.
EcrAfterScanningFatal(step, ok) ==
    IF ok \/ step = "step5" THEN EcrSuccessor(step) ELSE "exited"

\* Steps 1 and 3 have `exit 1` in their failure branch (lines 58-61, 65-69,
\* 91-94), Steps 2 and 7 are assignments under `set -e` (lines 10, 74, 195);
\* the failure branches of Steps 4 and 5 only log (lines 105-106, 175-180).
EcrAfter(step, ok) ==
    IF ok \/ step \in {"step4", "step5"} THEN EcrSuccessor(step) ELSE "exited"

InitEcr ==
    /\ \E argument \in RepoArguments : REPO_NAME = RepoNameOf(argument)
    /\ ecrPc = "step1"
    /\ ecrRan = <<>>
    /\ ecrOut = <<>>
    /\ ecrExit = 0
    /\ tempFile = "none"
    /\ outputFile = ""
    /\ SecretsOff /\ PoliciesOff /\ BuildOff /\ SetupOff /\ ValidateOff

\* The script moves to `next` (exits with `status` when that is "exited")
\* after running `ran` and printing `out`.
EcrGo(next, status, ran, out) ==
    /\ ecrPc' = next
    /\ ecrExit' = IF next = "exited" THEN status ELSE ecrExit
    /\ ecrRan' = ecrRan \o ran
    /\ ecrOut' = ecrOut \o out
    /\ UNCHANGED <<REPO_NAME, secretsVars, policies, kmsPolicies, buildVars,
                   setupVars, validateVars>>

\* Step 1, lines 56-70.
EcrPrerequisites ==
    /\ ecrPc = "step1"
    /\ \E aws \in BOOLEAN, credentials \in BOOLEAN :
        IF ~aws
        THEN EcrGo(EcrAfter("step1", FALSE), 1,
                   <<Ran("command -v aws", "", FALSE)>>,
                   <<"AWS CLI is not installed">>)
        ELSE EcrGo(EcrAfter("step1", credentials), 1,
                   <<Ran("command -v aws", "", TRUE),
                     Ran("aws sts get-caller-identity", "", credentials)>>,
                   <<"AWS CLI found",
                     IF credentials THEN "AWS credentials valid"
                     ELSE "Cannot access AWS with profile">>)
    /\ UNCHANGED <<tempFile, outputFile>>

\* Step 2, lines 72-75: an assignment, so `set -e` ends the script with the
\* status of an aws that fails.
EcrAccountId ==
    /\ ecrPc = "step2"
    /\ \E ok \in BOOLEAN, status \in FailureStatuses :
        EcrGo(EcrAfter("step2", ok), status,
              <<Ran("aws sts get-caller-identity", "Account", ok)>>,
              IF ok THEN <<"Account ID">> ELSE <<>>)
    /\ UNCHANGED <<tempFile, outputFile>>

\* Step 3, lines 77-95.
EcrRepository ==
    /\ ecrPc = "step3"
    /\ \E exists \in BOOLEAN, created \in BOOLEAN :
        IF exists
        THEN EcrGo(EcrAfter("step3", TRUE), 1,
                   <<Ran("aws ecr describe-repositories", "", TRUE)>>,
                   <<"Repository already exists">>)
        ELSE EcrGo(EcrAfter("step3", created), 1,
                   <<Ran("aws ecr describe-repositories", "", FALSE),
                     Ran("aws ecr create-repository", "", created)>>,
                   <<"Repository doesn't exist. Creating...",
                     IF created THEN "Repository created successfully"
                     ELSE "Failed to create repository">>)
    /\ UNCHANGED <<tempFile, outputFile>>

\* Step 4, lines 97-107.
EcrScanning ==
    /\ ecrPc = "step4"
    /\ \E ok \in BOOLEAN :
        LET next == EcrAfter("step4", ok)
        IN  EcrGo(next, 1,
                  <<Ran("aws ecr put-image-scanning-configuration", "", ok)>>,
                  IF ok THEN <<"Image scanning enabled">>
                  ELSE IF next = "exited" THEN <<>>
                  ELSE <<"Could not enable image scanning (may already be configured)">>)
    /\ UNCHANGED <<tempFile, outputFile>>

\* Step 5, lines 109-180: the policy is written to a temporary file and
\* applied; the failure branch prints the file and a warning.
EcrLifecycle ==
    /\ ecrPc = "step5"
    /\ \E ok \in BOOLEAN :
        EcrGo(EcrAfter("step5", ok), 1,
              <<Ran("mktemp", "", TRUE),
                Ran("aws ecr put-lifecycle-policy", "", ok)>>
                \o (IF ok THEN <<>> ELSE <<Ran("cat", "", TRUE)>>),
              IF ok THEN <<"Lifecycle policy applied">>
              ELSE <<"Could not apply lifecycle policy">>)
    /\ tempFile' = "present"
    /\ UNCHANGED outputFile

\* Line 182: rm -f $TEMP_FILE.
EcrRemoveTempFile ==
    /\ ecrPc = "remove"
    /\ EcrGo(EcrAfter("remove", TRUE), 1, <<Ran("rm -f", "", TRUE)>>, <<>>)
    /\ tempFile' = "removed"
    /\ UNCHANGED outputFile

\* Steps 6 and 7, lines 184-202: REPO_ARN=$(aws ecr describe-repositories
\* ... --query repositoryArn) is an assignment under `set -e`.
EcrDetails ==
    /\ ecrPc = "step7"
    /\ \E ok \in BOOLEAN, status \in FailureStatuses :
        EcrGo(EcrAfter("step7", ok), status,
              <<Ran("aws ecr describe-repositories", "repositoryArn", ok)>>,
              <<"Repository URI">> \o (IF ok THEN <<"Repository ARN">> ELSE <<>>))
    /\ UNCHANGED <<tempFile, outputFile>>

\* Step 8, lines 204-288.
EcrSaveConfiguration ==
    /\ ecrPc = "step8"
    /\ EcrGo(EcrAfter("step8", TRUE), 1, <<>>, <<"Configuration saved to">>)
    /\ outputFile' = OutputFileOf(REPO_NAME)
    /\ UNCHANGED tempFile

\* Lines 290-311: the script ends after its last echo.
EcrSummary ==
    /\ ecrPc = "summary"
    /\ EcrGo("exited", 0, <<>>, <<"Repository Setup Complete!">>)
    /\ UNCHANGED <<tempFile, outputFile>>

NextEcr ==
    \/ EcrPrerequisites \/ EcrAccountId \/ EcrRepository \/ EcrScanning
    \/ EcrLifecycle \/ EcrRemoveTempFile \/ EcrDetails \/ EcrSaveConfiguration
    \/ EcrSummary

EcrSpec == InitEcr /\ [][NextEcr]_vars

----------------------------------------------------------------------------
(* Vocabulary of the properties *)

Failed(call) == call.error # "none"

\* The warnings that the failed calls of `cs` account for, in call order.
RECURSIVE WarningsOf(_)
WarningsOf(cs) ==
    IF cs = <<>> THEN <<>>
    ELSE LET c == Head(cs)
         IN  IF c.error # "none" /\ c.param.required \in {"true", "unset"}
             THEN <<[environmentVariable |-> c.param.environmentVariable,
                     parameterPath |-> c.parameterPath]>> \o WarningsOf(Tail(cs))
             ELSE WarningsOf(Tail(cs))

\* Parameter Store resolves the path of parameters[i].
Resolvable(i) ==
    LET path == ResolvePath(parameters[i], environment)
    IN  ~Malformed(path) /\ storage[path] = "ok"

\* parameters[i] can be imported: its variable is not yet a child of the
\* construct and its path resolves.
Succeeds(i) ==
    /\ parameters[i].environmentVariable \notin children0
    /\ Resolvable(i)

PairwiseDistinct(params) ==
    \A i, j \in 1..Len(params) :
        i # j => params[i].environmentVariable # params[j].environmentVariable

Reorderings(params) ==
    { [i \in 1..Len(params) |-> params[f[i]]] :
        f \in { g \in [1..Len(params) -> 1..Len(params)] :
                  \A a, b \in 1..Len(params) : a # b => g[a] # g[b] } }

Range(seq) == { seq[i] : i \in 1..Len(seq) }

----------------------------------------------------------------------------
(* C1 *)

\* C1 as stated: for every spec whose secret creation failed, the returned map
\* has no entry for that spec's environmentVariable, and the warnings are exactly
\* those of the failed specs whose required is not false.
C1_FailedVariableAbsent ==
    pc = "done" =>
      /\ \A i \in 1..Len(calls) :
           Failed(calls[i])
             => calls[i].param.environmentVariable \notin DOMAIN secretsMap
      /\ warnings = WarningsOf(calls)

\* C1 amended: a spec whose secret creation failed adds no entry, so its
\* environmentVariable is in the map only if another spec with the same
\* environmentVariable succeeded, whatever required is; a warning is emitted
\* for a failed spec exactly when its required is not false.
C1_FailedSpecAddsNoEntry ==
    /\ \A i \in 1..Len(calls) :
         (Failed(calls[i]) /\ calls[i].param.environmentVariable \in DOMAIN secretsMap)
           => \E j \in 1..Len(calls) :
                /\ j # i
                /\ ~Failed(calls[j])
                /\ calls[j].param.environmentVariable = calls[i].param.environmentVariable
                /\ secretsMap[calls[i].param.environmentVariable].parameterName
                     = calls[j].parameterPath
    /\ warnings = WarningsOf(calls)

\* Two specs failed, one with required false and one with required unset;
\* neither variable is in the returned map and only the second is warned about.
C1_Witness ==
    /\ pc = "done"
    /\ Len(calls) = 2
    /\ Failed(calls[1]) /\ calls[1].param.required = "false"
    /\ Failed(calls[2]) /\ calls[2].param.required = "unset"
    /\ secretsMap = EmptyMap
    /\ Len(warnings) = 1

----------------------------------------------------------------------------
(* C2 *)

\* C2 as stated: of two specs with the same environmentVariable and distinct
\* resolvable paths, on a construct that has no child of that name yet, the
\* returned map binds the variable to the reference of the last one.
C2_LastSpecWins ==
    pc = "done" =>
      \A i, j \in 1..Len(parameters) :
        ( /\ i < j
          /\ parameters[i].environmentVariable = parameters[j].environmentVariable
          /\ ResolvePath(parameters[i], environment)
               # ResolvePath(parameters[j], environment)
          /\ Resolvable(i) /\ Resolvable(j)
          /\ parameters[j].environmentVariable \notin children0
          /\ \A k \in 1..Len(parameters) :
               k > j => parameters[k].environmentVariable
                          # parameters[j].environmentVariable )
        => /\ parameters[j].environmentVariable \in DOMAIN secretsMap
           /\ secretsMap[parameters[j].environmentVariable].parameterName
                = ResolvePath(parameters[j], environment)

----------------------------------------------------------------------------
(* C3 *)

----------------------------------------------------------------------------
(* C4 *)

\* path = /eduka3d/<env>/<suffix>
HasNamespaceForm(path, env) == StartsWith(path, NAMESPACE \o env \o <<"/">>)

\* C4 as stated: every path handed to Parameter Store has the form
\* /eduka3d/<environment>/<suffix>.
C4_EveryPathNamespaced ==
    \A i \in 1..Len(calls) : HasNamespaceForm(calls[i].parameterPath, environment)

\* C4 amended: every path handed to Parameter Store for a spec whose
\* parameterPath has no "/" has the form /eduka3d/<environment>/<suffix>; a
\* parameterPath with a "/" is handed over as it is, inside the namespace
\* or not.
C4_BarePathNamespaced ==
    \A i \in 1..Len(calls) :
        \/ HasNamespaceForm(calls[i].parameterPath, environment)
        \/ /\ Includes(calls[i].param.parameterPath, "/")
           /\ calls[i].parameterPath = calls[i].param.parameterPath

\* One invocation handed over a namespaced path and one outside the namespace.
C4_Witness ==
    /\ pc = "done"
    /\ Len(calls) = 2
    /\ HasNamespaceForm(calls[1].parameterPath, environment)
    /\ ~HasNamespaceForm(calls[2].parameterPath, environment)
    /\ ~Failed(calls[2])

----------------------------------------------------------------------------
(* C5 *)

ReadActions == {"ssm:GetParameter", "ssm:GetParameters", "ssm:GetParametersByPath"}

\* C5 as stated: for a non-empty environment e the statement allows exactly
\* the three read actions on the single resource /eduka3d/e/*, and depends
\* on e alone.
C5_ResourceIsPathOfEnvironmentAlone ==
    \A i \in 1..Len(policies) :
        policies[i].environment # <<>> =>
          /\ policies[i].statement.effect = "Allow"
          /\ Range(policies[i].statement.actions) = ReadActions
          /\ policies[i].statement.resources
               = << NAMESPACE \o policies[i].environment \o <<"/", "*">> >>
          /\ \A j \in 1..Len(policies) :
               policies[j].environment = policies[i].environment
                 => policies[j].statement = policies[i].statement

\* C5 amended: for a non-empty environment e the statement allows exactly
\* the three read actions on a single resource, the ARN
\* arn:aws:ssm:<region>:<accountId>:parameter/eduka3d/e/*, which ends with
\* /eduka3d/e/*; the statement is a function of e, region and accountId
\* together, and differs when the region or the account differs.
C5_ResourceIsArnOfEnvironment ==
    \A i \in 1..Len(policies) :
        policies[i].environment # <<>> =>
          LET s == policies[i].statement
              arnOwner == ARN_SSM \o policies[i].region \o <<":">>
                            \o policies[i].accountId \o ARN_PARAMETER
          IN  /\ s.effect = "Allow"
              /\ Len(s.actions) = 3
              /\ Range(s.actions) = ReadActions
              /\ Len(s.resources) = 1
              /\ StartsWith(s.resources[1], arnOwner)
              /\ EndsWith(s.resources[1],
                          NAMESPACE \o policies[i].environment \o <<"/", "*">>)
              /\ Len(s.resources[1])
                   = Len(arnOwner) + Len(NAMESPACE) + Len(policies[i].environment) + 2
              /\ \A j \in 1..Len(policies) :
                   policies[j].environment = policies[i].environment
                     => ( policies[j].statement = s
                            <=> /\ policies[j].region = policies[i].region
                                /\ policies[j].accountId = policies[i].accountId )

\* Two statements were built for the same non-empty environment in two regions.
C5_Witness ==
    /\ Len(policies) = 2
    /\ policies[1].environment = <<"d", "e", "v">>
    /\ policies[2].environment = <<"d", "e", "v">>
    /\ policies[1].region # policies[2].region
    /\ policies[1].statement # policies[2].statement

----------------------------------------------------------------------------
(* C6 *)

\* C6: for a spec whose parameterPath is a bare key k (no "/") and the
\* environment e, the path handed to Parameter Store is exactly /eduka3d/e/k:
\* the literal, then e unchanged, then one "/", then k unchanged, whatever
\* characters e holds.
C6_BareKeyUnderNamespace ==
    \A i \in 1..Len(calls) :
        LET k == calls[i].param.parameterPath
            path == calls[i].parameterPath
            e == environment
        IN  ~Includes(k, "/") =>
              /\ Len(path) = 9 + Len(e) + 1 + Len(k)
              /\ SubSeq(path, 1, 9) = <<"/", "e", "d", "u", "k", "a", "3", "d", "/">>
              /\ SubSeq(path, 10, 9 + Len(e)) = e
              /\ path[10 + Len(e)] = "/"
              /\ SubSeq(path, 11 + Len(e), Len(path)) = k

\* A bare key was resolved under an environment tag that itself holds a "/".
C6_Witness ==
    /\ Len(calls) >= 1
    /\ calls[1].param.parameterPath = <<"K">>
    /\ environment = <<"a", "/", "b">>
    /\ calls[1].parameterPath
         = <<"/", "e", "d", "u", "k", "a", "3", "d", "/", "a", "/", "b", "/", "K">>

----------------------------------------------------------------------------
(* C7 *)

\* C7: for a spec whose parameterPath holds a "/" at any position, the path
\* handed to Parameter Store is that parameterPath unchanged, and it is the
\* same for every environment tag.
C7_PathWithSeparatorUnchanged ==
    \A i \in 1..Len(calls) :
        Includes(calls[i].param.parameterPath, "/") =>
          /\ calls[i].parameterPath = calls[i].param.parameterPath
          /\ \A e \in Environments :
               ResolvePath(calls[i].param, e) = calls[i].param.parameterPath

\* A parameterPath whose "/" is not its first character was handed over.
C7_Witness ==
    /\ Len(calls) >= 1
    /\ calls[1].param.parameterPath = <<"x", "/", "K">>
    /\ calls[1].parameterPath = <<"x", "/", "K">>
    /\ environment = <<"d", "e", "v">>

----------------------------------------------------------------------------
(* C8 *)

\* C8 as stated: a second invocation with the same construct, environment
\* and specs and an unchanged Parameter Store returns the same map and emits
\* the same warnings as the first.
C8_SecondInvocationSame ==
    \A i, j \in 1..Len(results) : results[i] = results[j]

----------------------------------------------------------------------------
(* C9 *)

\* C9: createSecretsMap always terminates and returns a map, and a failure
\* for one spec never keeps later specs from being processed: for specs with
\* pairwise distinct environmentVariable the returned key set is exactly the
\* set of the variables whose secret creation succeeded.
C9_TerminatesWithSucceededKeys ==
    /\ []( (pc = "done" /\ PairwiseDistinct(parameters)) =>
             DOMAIN secretsMap
               = { parameters[i].environmentVariable :
                     i \in { n \in 1..Len(parameters) : Succeeds(n) } } )
    /\ (pc = "loop") ~> (pc = "done")

\* The first of two specs failed and the second is the only key returned.
C9_Witness ==
    /\ pc = "done"
    /\ Len(parameters) = 2
    /\ PairwiseDistinct(parameters)
    /\ ~Succeeds(1)
    /\ Succeeds(2)
    /\ DOMAIN secretsMap = {parameters[2].environmentVariable}

----------------------------------------------------------------------------
(* C10 *)

\* C10: for specs with pairwise distinct environmentVariable, every
\* reordering of the list returns the same map and emits the same warnings
\* up to their order.
C10_OrderIrrelevant ==
    (pc = "done" /\ PairwiseDistinct(parameters)) =>
      \A q \in Reorderings(parameters) :
        LET r == CreateSecretsMap(children0, environment, q, storage)
        IN  /\ ~r.aborted
            /\ r.secretsMap = secretsMap
            /\ Range(r.warnings) = Range(warnings)
            /\ Len(r.warnings) = Len(warnings)

\* Two specs with distinct variables, both warned about, whose reversal
\* emits the warnings in the other order.
C10_Witness ==
    /\ pc = "done"
    /\ Len(parameters) = 2
    /\ PairwiseDistinct(parameters)
    /\ Len(warnings) = 2
    /\ CreateSecretsMap(children0, environment,
                        <<parameters[2], parameters[1]>>, storage).warnings
         = <<warnings[2], warnings[1]>>

----------------------------------------------------------------------------
(* C11 *)

\* C11: when the secret creation for a spec succeeds, the map binds that
\* spec's environmentVariable to a reference for exactly the spec's resolved
\* path, and when every creation of the list succeeds no warning is emitted.
C11_SucceededSpecBound ==
    /\ \A i \in 1..Len(calls) :
         ~Failed(calls[i]) =>
           /\ calls[i].param.environmentVariable \in DOMAIN secretsMap
           /\ secretsMap[calls[i].param.environmentVariable].parameterName
                = ResolvePath(parameters[i], environment)
    /\ (\A i \in 1..Len(calls) : ~Failed(calls[i])) => warnings = <<>>

\* The end-to-end scenario: one required spec with a bare key, environment
\* dev, the path resolves; the key is bound to /eduka3d/dev/J and nothing is
\* logged.
C11_Witness ==
    /\ pc = "done"
    /\ environment = <<"d", "e", "v">>
    /\ parameters = << [environmentVariable |-> "API_KEY", parameterPath |-> <<"J">>,
                        required |-> "true"] >>
    /\ DOMAIN secretsMap = {"API_KEY"}
    /\ secretsMap["API_KEY"].parameterName
         = <<"/", "e", "d", "u", "k", "a", "3", "d", "/", "d", "e", "v", "/", "J">>
    /\ warnings = <<>>

----------------------------------------------------------------------------
(* C12 *)

\* C12: createKmsDecryptPolicy returns on every call the same statement:
\* effect allow, actions exactly kms:Decrypt and kms:DescribeKey, resources
\* exactly "*", whatever environments policies were built for in between and
\* whatever was returned before.
C12_KmsStatementFixed ==
    \A i \in 1..Len(kmsPolicies) :
        /\ kmsPolicies[i].effect = "Allow"
        /\ Len(kmsPolicies[i].actions) = 2
        /\ Range(kmsPolicies[i].actions) = {"kms:Decrypt", "kms:DescribeKey"}
        /\ kmsPolicies[i].resources = << <<"*">> >>
        /\ kmsPolicies[i] = kmsPolicies[1]

\* The statement was built twice, with Parameter Store policies for two
\* different environments built as well.
C12_Witness ==
    /\ Len(kmsPolicies) = 2
    /\ Len(policies) = 2
    /\ policies[1].environment # policies[2].environment

----------------------------------------------------------------------------
(* C18 *)

\* C18 as stated: every secret of the map returned for environment env has a
\* path covered by the resource of the Parameter Store policy built for env
\* (arn:aws:ssm:<region>:<account>:parameter/eduka3d/env/*), for every spec
\* list, those with an absolute parameterPath included.
C18_EverySecretCovered ==
    pc = "done" =>
      \A v \in DOMAIN secretsMap, region \in Regions, accountId \in AccountIds :
        \E n \in 1..Len(CreateParameterStorePolicy(environment, region,
                                                   accountId).resources) :
          Covers(CreateParameterStorePolicy(environment, region, accountId).resources[n],
                 ParameterArn(region, accountId, secretsMap[v].parameterName))

----------------------------------------------------------------------------
(* C19 *)

\* C19: createSecretsMap makes exactly one secret creation call per spec, in
\* list order, and none again for a spec whose call failed: after k loop
\* iterations the calls are those for the first k specs, and at the return
\* there are as many calls as specs.
C19_OneCallPerSpecInOrder ==
    /\ Len(calls) = idx - 1
    /\ Len(calls) <= Len(parameters)
    /\ \A i \in 1..Len(calls) :
         /\ calls[i].param = parameters[i]
         /\ calls[i].parameterPath = ResolvePath(parameters[i], environment)
    /\ pc = "done" => Len(calls) = Len(parameters)

\* The call for the first of two different specs failed and was followed by
\* the call for the second.
C19_Witness ==
    /\ pc = "done"
    /\ Len(calls) = 2
    /\ calls[1].error = "notfound"
    /\ calls[2].param # calls[1].param
    /\ calls[2].param = parameters[2]

----------------------------------------------------------------------------
(* Properties of build-and-push.sh *)

\* Index of the first successful run of one of `cmds`, 0 when there is none.
FirstOk(cmds) ==
    LET hits == {i \in DOMAIN bpRan : bpRan[i].cmd \in cmds /\ bpRan[i].ok}
    IN  IF hits = {} THEN 0 ELSE CHOOSE i \in hits : \A j \in hits : i <= j

Printed(message) == \E i \in DOMAIN bpOut : bpOut[i] = message

HasRun(cmd) == \E i \in DOMAIN bpRan : bpRan[i].cmd = cmd

\* C13: when every external command succeeds, the script prints the
\* "Workflow Complete" summary and exits 0, whatever TAG is (the default
\* "latest" included).
C13_AllSucceedCompletes ==
    (bpPc = "exited" /\ \A i \in DOMAIN bpRan : bpRan[i].ok)
        => (bpExit = 0 /\ Printed("Workflow Complete!"))

\* C14: with a TAG other than "latest", success of the push step is printed
\* only when both the image tagged TAG and the image tagged "latest" were
\* pushed; a failed push prints "Push failed", exits 1, and verify and
\* cleanup never run.
C14_BothPushesOrFailure ==
    TAG # "latest" =>
        /\ Printed("Image pushed successfully") =>
              /\ \E i \in DOMAIN bpRan : bpRan[i] = Ran("docker push", TAG, TRUE)
              /\ \E i \in DOMAIN bpRan : bpRan[i] = Ran("docker push", "latest", TRUE)
        /\ (\E i \in DOMAIN bpRan : bpRan[i].cmd = "docker push" /\ ~bpRan[i].ok) =>
              /\ Printed("Push failed. See details below:")
              /\ ~Printed("Image pushed successfully")
              /\ bpPc = "exited" /\ bpExit = 1
              /\ ~HasRun("aws ecr describe-images") /\ ~HasRun("docker rmi")

\* The first push succeeded and the push of "latest" failed.
C14_Witness ==
    /\ TAG # "latest"
    /\ \E i \in DOMAIN bpRan : bpRan[i] = Ran("docker push", TAG, TRUE)
    /\ \E i \in DOMAIN bpRan : bpRan[i] = Ran("docker push", "latest", FALSE)
    /\ bpPc = "exited"

\* The steps that come before the push, in script order; the repository
\* step succeeds by its check or by its creation.
StepsBeforePush ==
    << {"command -v docker"}, {"command -v aws"}, {"test -f Dockerfile"},
       {"aws sts get-caller-identity"},
       {"aws ecr describe-repositories", "aws ecr create-repository"},
       {"docker login"}, {"docker build"} >>

\* The commands whose failure is the failure of a step before the push.
StepFailures ==
    {"command -v docker", "command -v aws", "test -f Dockerfile",
     "aws sts get-caller-identity", "aws ecr create-repository",
     "docker login", "docker build"}

\* C20: a docker push has run only if the prerequisite checks, the account
\* lookup, the repository check or creation, docker login and docker build
\* succeeded before it, in that order; when one of them fails it is the last
\* command that runs and the script has exited with status 1.
C20_OrderedFailFast ==
    /\ \A i \in DOMAIN bpRan : bpRan[i].cmd = "docker push" =>
          /\ \A k \in DOMAIN StepsBeforePush : FirstOk(StepsBeforePush[k]) > 0
          /\ \A k \in 1..(Len(StepsBeforePush) - 1) :
                FirstOk(StepsBeforePush[k]) < FirstOk(StepsBeforePush[k + 1])
          /\ FirstOk(StepsBeforePush[Len(StepsBeforePush)]) < i
    /\ \A i \in DOMAIN bpRan : (bpRan[i].cmd \in StepFailures /\ ~bpRan[i].ok) =>
          /\ i = Len(bpRan)
          /\ bpPc = "exited" /\ bpExit = 1

\* docker build failed after login succeeded.
C20_Witness ==
    /\ bpRan # <<>>
    /\ bpRan[Len(bpRan)] = Ran("docker build", "local", FALSE)
    /\ bpPc = "exited"

----------------------------------------------------------------------------
(* Properties of setup-parameter-store.sh *)

\* A line that is not empty, not a comment and has no placeholder value.
Eligible(line) == ~IsBlankOrComment(line) /\ ~IsPlaceholder(ValueOf(line))

AttemptsOf(n) == {i \in DOMAIN puts : puts[i].line = n}

\* C15: when the script ends, every non-comment, non-empty, non-placeholder
\* line of the env file has had exactly one put-parameter attempt, CREATED is
\* the number of successful attempts, FAILED the number of failed ones, and
\* their sum the number of attempts.
C15_EveryEligibleLineAttemptedOnce ==
    spPc = "done" =>
        /\ \A n \in DOMAIN envFile.lines :
              Eligible(envFile.lines[n]) => Cardinality(AttemptsOf(n)) = 1
        /\ CREATED = Cardinality({i \in DOMAIN puts : puts[i].ok})
        /\ FAILED = Cardinality({i \in DOMAIN puts : ~puts[i].ok})
        /\ CREATED + FAILED = Len(puts)

\* The keys DEFAULT_PARAMETERS declares SecureString that the validation
\* script type-checks (DJANGO_SECRET_KEY, lines 127-132).
SecureStringKeys == {DJANGO_SECRET_KEY}

\* C16: a key declared SecureString that the setup script wrote with success
\* was written with type SecureString, and the validation script's type check
\* of that key against SecureString passes on the resulting store.
C16_SecureKeyWrittenSecure ==
    spPc = "done" =>
        \A i \in DOMAIN puts :
            (puts[i].key \in SecureStringKeys /\ puts[i].ok) =>
                /\ puts[i].type = "SecureString"
                /\ check_parameter_type(0, 0,
                       GetParameterType(paramStore, ParamName(ENVIRONMENT, puts[i].key)),
                       "SecureString").status = 0

----------------------------------------------------------------------------
(* Properties of validate-parameter-store.sh *)

C17_Step ==
    /\ CHECKS_PASSED' >= CHECKS_PASSED
    /\ CHECKS_FAILED' >= CHECKS_FAILED
    /\ vChecks' # vChecks =>
          /\ vChecks' = vChecks + 1
          /\ CHECKS_PASSED' + CHECKS_FAILED' = CHECKS_PASSED + CHECKS_FAILED + 1
    /\ vPc' = "exited" =>
          /\ vExit' \in {0, 1}
          /\ vExit' = 1 <=> CHECKS_FAILED' > 0

----------------------------------------------------------------------------
(* C21 *)

\* C21: put-parameter is never issued for an empty line, a line that starts
\* with "#", or a line whose value is empty or holds "your-", "YOUR_" or
\* "example"; the counters CREATED, UPDATED and FAILED owe nothing to such
\* lines (they count the attempts alone, and UPDATED stays 0); and when the
\* script ends every other line of the env file has been written at the name
\* /eduka3d/<ENVIRONMENT>/<key>.
C21_SkippedNeverWrittenOthersNamed ==
    /\ \A i \in DOMAIN puts :
          /\ Eligible(envFile.lines[puts[i].line])
          /\ puts[i].name = NAMESPACE \o ENVIRONMENT \o <<"/">>
                                \o Xargs(KeyOf(envFile.lines[puts[i].line]))
    /\ CREATED = Cardinality({i \in DOMAIN puts : puts[i].ok})
    /\ FAILED = Cardinality({i \in DOMAIN puts : ~puts[i].ok})
    /\ UPDATED = 0
    /\ spPc = "done" =>
          \A n \in DOMAIN envFile.lines :
              Eligible(envFile.lines[n]) => AttemptsOf(n) # {}

----------------------------------------------------------------------------
(* Properties of setup-ecr.sh *)

EcrPrinted(message) == \E i \in DOMAIN ecrOut : ecrOut[i] = message

EcrHasRun(cmd, ref, ok) == \E i \in DOMAIN ecrRan : ecrRan[i] = Ran(cmd, ref, ok)

\* create-repository runs only right after a describe-repositories that
\* failed, and when it fails it is the last command and the exit status is 1.
CreateOnlyAfterFailedDescribe ==
    \A i \in DOMAIN ecrRan : ecrRan[i].cmd = "aws ecr create-repository" =>
        /\ i > 1
        /\ ecrRan[i - 1] = Ran("aws ecr describe-repositories", "", FALSE)
        /\ ~ecrRan[i].ok => (i = Len(ecrRan) /\ ecrPc = "exited" /\ ecrExit = 1)

\* A failure of Step 4 or of Step 5 prints its warning.
FailureOnlyWarns ==
    /\ EcrHasRun("aws ecr put-image-scanning-configuration", "", FALSE) =>
          EcrPrinted("Could not enable image scanning (may already be configured)")
    /\ EcrHasRun("aws ecr put-lifecycle-policy", "", FALSE) =>
          EcrPrinted("Could not apply lifecycle policy")

ScanningOrLifecycleFailed ==
    \/ EcrHasRun("aws ecr put-image-scanning-configuration", "", FALSE)
    \/ EcrHasRun("aws ecr put-lifecycle-policy", "", FALSE)

Completed ==
    /\ outputFile = OutputFileOf(REPO_NAME)
    /\ EcrPrinted("Repository Setup Complete!")
    /\ ecrExit = 0

\* Whether the lifecycle step succeeded or failed, the temporary file it
\* made is gone once the script is past line 182, and so when it exits.
TempFileRemoved ==
    /\ ecrPc \in {"step7", "step8", "summary"} => tempFile = "removed"
    /\ ecrPc = "exited" => tempFile # "present"
    /\ (ecrPc = "exited" /\ EcrHasRun("mktemp", "", TRUE)) => tempFile = "removed"

====
